---- MODULE Spec2Model ----
(***************************************************************************)
(* Model of the ASL recognizer project: the model selectors of             *)
(* my_model_selectors.py (Constant, BIC, DIC, CV) and recognize() of       *)
(* my_recognizer.py.                                                       *)
(*                                                                         *)
(* The HMM library is external.  A fit on the word's whole data is a       *)
(* deterministic function of the state count (fixed random_state), drawn   *)
(* once in Init (fitOK, foldFitFail).  What a model.score call returns is  *)
(* drawn when the call is made and recorded in a history variable (calls,  *)
(* outcomes) so that the properties can speak about it.                    *)
(*                                                                         *)
(* Floats are records [k, v]: k = "num" carries an integer v (log          *)
(* likelihoods in hundredths), k = "ninf", "pinf", "nan" are the IEEE      *)
(* specials, k = "raise" stands for a call that raised an exception.       *)
(***************************************************************************)
EXTENDS Integers, Sequences, FiniteSets

VARIABLES
    \* ---- selector: constructor arguments and environment
    strategy,            \* which ModelSelector subclass
    min_n_components,    \* self.min_n_components
    max_n_components,    \* self.max_n_components
    n_constant,          \* self.n_constant
    numOthers,           \* number of entries of self.hwords other than this_word
    numFrames,           \* len(self.X)
    numFeatures,         \* len(self.X[0])
    numSequences,        \* len(self.sequences)
    fitOK,               \* fitOK[n]: GaussianHMM(n).fit(self.X, self.lengths) succeeds
    foldFitFail,         \* foldFitFail[n]: first fold whose training fit raises, 0 if none
    \* ---- selector: locals of select()
    pc,
    num_states,
    best_score,
    best_model,
    best_states,
    result,
    \* ---- selector: history
    calls,               \* calls[n]: outcomes of the model.score calls made for candidate n
    fellBack,            \* the except branch of select() ran
    \* ---- recognizer: arguments
    words,               \* keys of models, in iteration order
    models,              \* models[w]: a model or NoModel (None)
    numItems,            \* number of entries of test_set.get_all_Xlengths()
    \* ---- recognizer: locals of recognize()
    rpc,
    item,
    widx,
    word_probabilities,
    rec_best_score,
    best_guess,
    probabilities,
    guesses,
    \* ---- recognizer: history
    outcomes             \* outcomes[i][w]: what models[w].score did on test item i

selVars == <<strategy, min_n_components, max_n_components, n_constant, numOthers,
             numFrames, numFeatures, numSequences, fitOK, foldFitFail, pc,
             num_states, best_score, best_model, best_states, result, calls,
             fellBack>>

recVars == <<words, models, numItems, rpc, item, widx, word_probabilities,
             rec_best_score, best_guess, probabilities, guesses, outcomes>>

vars == <<selVars, recVars>>

----------------------------------------------------------------------------
(* Bounds of the model *)

\* largest hidden-state count a configuration may name; counts range over 2..MaxStateCount
MaxStateCount == 4

\* largest number of test items
MaxItems == 2

\* largest number of sequences of the word
MaxSequences == 2

StateDomain == 2..MaxStateCount

\* the other words of the vocabulary, in hwords iteration order
OtherWords == <<"OTHER1", "OTHER2">>

\* the keys models may have
Vocabulary == {"WORD1", "WORD2"}

\* finite log likelihoods a successful score may return in a selector (hundredths)
LogLValues == {-6000, -5500, -4750}

\* finite log likelihoods a successful score of a held-out fold may return (hundredths)
FoldLogLValues == {-6000, -5500}

\* finite log likelihoods a successful score may return in the recognizer
RecLogLValues == {-1000, -500}

\* frame counts of the word's data
FrameCounts == {1, 20}

\* feature counts of the word's data
FeatureCounts == {1, 2}

----------------------------------------------------------------------------
(* Floats *)

Num(x) == [k |-> "num", v |-> x]

NegInf == [k |-> "ninf", v |-> 0]

PosInf == [k |-> "pinf", v |-> 0]

NaN == [k |-> "nan", v |-> 0]

Raise == [k |-> "raise", v |-> 0]

\* a > b on floats; any comparison with NaN is false
FGt(a, b) ==
    CASE a.k = "nan" \/ b.k = "nan" -> FALSE
      [] a.k = "pinf" -> b.k # "pinf"
      [] a.k = "ninf" -> FALSE
      [] OTHER -> b.k = "ninf" \/ (b.k = "num" /\ a.v > b.v)

\* a < b on floats
FLt(a, b) == FGt(b, a)

\* a - b on floats
FSub(a, b) ==
    CASE a.k = "nan" \/ b.k = "nan" -> NaN
      [] a.k = "num" /\ b.k = "num" -> Num(a.v - b.v)
      [] a.k = "num" -> IF b.k = "pinf" THEN NegInf ELSE PosInf
      [] b.k = "num" -> a
      [] OTHER -> IF a.k = b.k THEN NaN ELSE a

RECURSIVE SumSeq(_)
SumSeq(s) == IF s = <<>> THEN 0 ELSE Head(s).v + SumSeq(Tail(s))

\* np.mean of a list of finite floats; the mean of the empty list is nan
NpMean(s) == IF s = <<>> THEN NaN ELSE Num(SumSeq(s) \div Len(s))

\* 100 * ln(N), rounded, for N = 1..20
Log100 == <<0, 69, 110, 139, 161, 179, 195, 208, 220, 230,
            240, 248, 256, 264, 271, 277, 283, 289, 294, 300>>

\* np.log(len(self.X)) in hundredths
NpLog(N) == Log100[N]

----------------------------------------------------------------------------
(* Models *)

\* a fitted GaussianHMM: its state count and the data it was fitted on
Model(n, d) == [n |-> n, data |-> d]

\* None
NoModel == [n |-> 0, data |-> "none"]

\* what a scoring call may do: return a finite log likelihood or raise
ScoreOutcomes == {Num(x) : x \in LogLValues} \cup {Raise}

\* what the fit and score of one fold may do: return a finite log likelihood or raise
FoldOutcomes == {Num(x) : x \in FoldLogLValues} \cup {Raise}

\* the calls of a sequence of intended calls that are made: up to the first that raises
RECURSIVE Made(_)
Made(s) ==
    IF s = <<>> THEN <<>>
    ELSE IF Head(s) = Raise THEN <<Raise>>
    ELSE <<Head(s)>> \o Made(Tail(s))

----------------------------------------------------------------------------
(* ModelSelector *)

Strategies == {"Constant", "BIC", "DIC", "CV"}

\* n_splits of the KFold of SelectorCV.score
NumSplits == 2

\* the initial best_states of SelectorCV.select
CVInitialStates == 3

cfgVars == <<strategy, min_n_components, max_n_components, n_constant, numOthers,
             numFrames, numFeatures, numSequences, fitOK, foldFitFail>>

\* ModelSelector.base_model: the model fitted on the word's whole data, None when the fit raises
base_model(n) == IF fitOK[n] THEN Model(n, "full") ELSE NoModel

\* mutant of FallbackStates: the except branch fits the hard-wired default count
FallbackStatesDefault(nc) == CVInitialStates

\* the state count the except branch of select() fits
FallbackStates(nc) == nc

\* range(self.min_n_components, self.max_n_components+1) of SelectorBIC.select
BICRange(lo, hi) == lo..hi

\* mutant of DICRange: the upper bound is included
DICRangeInclusive(lo, hi) == lo..hi

\* range(self.min_n_components, self.max_n_components) of SelectorDIC.select
DICRange(lo, hi) == lo..(hi - 1)

\* range(self.min_n_components, self.max_n_components+1) of SelectorCV.select
CVRange(lo, hi) == lo..hi

\* the number of free parameters p of SelectorBIC.score
BICParams(n, f) == (n * n) + 2 * (f * n) - 1

\* SelectorBIC.score: -2*logL + p*logN
BICScore(logL, n) == Num(-2 * logL.v + BICParams(n, numFeatures) * NpLog(numFrames))

\* mutant of BICBetter: score <= best_score, the last minimum wins
BICBetterOrEqual(score, best) == ~FGt(score, best)

\* if score < best_score
BICBetter(score, best) == FLt(score, best)

\* if score > best_score (SelectorDIC.select)
DICBetter(score, best) == FGt(score, best)

\* if score > best_score (SelectorCV.select)
CVBetter(score, best) == FGt(score, best)

\* mutant of CVFinalModel: a model fitted on a training fold is returned
CVFoldModel(n) == Model(n, "fold")

\* the model SelectorCV.select returns for the chosen state count
CVFinalModel(n) == base_model(n)

\* the model state of a selector that has not been constructed
SelIdle ==
    /\ strategy = "Constant"
    /\ min_n_components = 2
    /\ max_n_components = 2
    /\ n_constant = 2
    /\ numOthers = 0
    /\ numFrames = 1
    /\ numFeatures = 1
    /\ numSequences = 1
    /\ fitOK = [n \in StateDomain |-> TRUE]
    /\ foldFitFail = [n \in StateDomain |-> 0]
    /\ pc = "idle"
    /\ num_states = 0
    /\ best_score = NegInf
    /\ best_model = NoModel
    /\ best_states = 0
    /\ result = NoModel
    /\ calls = [n \in StateDomain |-> <<>>]
    /\ fellBack = FALSE

\* ModelSelector.__init__: any strategy, any configuration, any behaviour of the fits.
\* An input a strategy never reads is held at one value.
SelInit ==
    /\ strategy \in Strategies
    /\ min_n_components \in StateDomain
    /\ max_n_components \in StateDomain
    /\ n_constant \in StateDomain
    /\ numOthers \in (IF strategy = "DIC" THEN 0..Len(OtherWords) ELSE {Len(OtherWords)})
    /\ numFrames \in (IF strategy = "BIC" THEN FrameCounts ELSE {1})
    /\ numFeatures \in (IF strategy = "BIC" THEN FeatureCounts ELSE {1})
    /\ numSequences \in (IF strategy = "CV" THEN 1..MaxSequences ELSE {MaxSequences})
    /\ fitOK \in [StateDomain -> BOOLEAN]
    /\ foldFitFail \in (IF strategy = "CV" THEN [StateDomain -> 0..NumSplits]
                                          ELSE {[n \in StateDomain |-> 0]})
    /\ pc = "ready"
    /\ num_states = 0
    /\ best_score = NegInf
    /\ best_model = NoModel
    /\ best_states = 0
    /\ result = NoModel
    /\ calls = [n \in StateDomain |-> <<>>]
    /\ fellBack = FALSE

\* SelectorConstant.select
ConstantSelect ==
    /\ pc = "ready"
    /\ strategy = "Constant"
    /\ result' = base_model(n_constant)
    /\ pc' = "done"
    /\ UNCHANGED <<cfgVars, num_states, best_score, best_model, best_states, calls,
                   fellBack, recVars>>

\* SelectorBIC.select: the initialisation in the try block
BICEnter ==
    /\ pc = "ready"
    /\ strategy = "BIC"
    /\ best_score' = PosInf
    /\ best_model' = NoModel
    /\ num_states' = min_n_components
    /\ pc' = "loop"
    /\ UNCHANGED <<cfgVars, best_states, result, calls, fellBack, recVars>>

\* SelectorBIC.select: one iteration of the loop, with the call of SelectorBIC.score
BICIter ==
    /\ pc = "loop"
    /\ strategy = "BIC"
    /\ num_states \in BICRange(min_n_components, max_n_components)
    /\ \E out \in ScoreOutcomes :
         LET model == base_model(num_states)
             made  == IF model = NoModel THEN <<Raise>> ELSE <<out>>
             ok    == made[1] # Raise
             score == BICScore(made[1], num_states)
         IN  /\ calls' = [calls EXCEPT ![num_states] = made]
             /\ IF ok
                THEN /\ IF BICBetter(score, best_score)
                        THEN best_score' = score /\ best_model' = model
                        ELSE UNCHANGED <<best_score, best_model>>
                     /\ num_states' = num_states + 1
                     /\ pc' = "loop"
                ELSE /\ pc' = "except"
                     /\ UNCHANGED <<best_score, best_model, num_states>>
    /\ UNCHANGED <<cfgVars, best_states, result, fellBack, recVars>>

\* SelectorBIC.select: return best_model
BICReturn ==
    /\ pc = "loop"
    /\ strategy = "BIC"
    /\ num_states \notin BICRange(min_n_components, max_n_components)
    /\ result' = best_model
    /\ pc' = "done"
    /\ UNCHANGED <<cfgVars, num_states, best_score, best_model, best_states, calls,
                   fellBack, recVars>>

\* SelectorBIC.select: the except branch
BICExcept ==
    /\ pc = "except"
    /\ strategy = "BIC"
    /\ result' = base_model(FallbackStates(n_constant))
    /\ fellBack' = TRUE
    /\ pc' = "done"
    /\ UNCHANGED <<cfgVars, num_states, best_score, best_model, best_states, calls,
                   recVars>>

\* SelectorDIC.select: the initialisation in the try block
DICEnter ==
    /\ pc = "ready"
    /\ strategy = "DIC"
    /\ best_score' = NegInf
    /\ best_model' = NoModel
    /\ num_states' = min_n_components
    /\ pc' = "loop"
    /\ UNCHANGED <<cfgVars, best_states, result, calls, fellBack, recVars>>

\* SelectorDIC.select: one iteration of the loop.  The model scores every other
\* word, then its own word; scoring with a None model raises.
DICIter ==
    /\ pc = "loop"
    /\ strategy = "DIC"
    /\ num_states \in DICRange(min_n_components, max_n_components)
    /\ \E outs \in [1..(numOthers + 1) -> ScoreOutcomes] :
         LET model == base_model(num_states)
             made  == IF model = NoModel THEN <<Raise>> ELSE Made(outs)
             ok    == Len(made) = numOthers + 1 /\ made[numOthers + 1] # Raise
             mean_score_array == SubSeq(made, 1, numOthers)
             mean  == NpMean(mean_score_array)
             score == FSub(made[numOthers + 1], mean)
         IN  /\ calls' = [calls EXCEPT ![num_states] = made]
             /\ IF ok
                THEN /\ IF DICBetter(score, best_score)
                        THEN best_score' = score /\ best_model' = model
                        ELSE UNCHANGED <<best_score, best_model>>
                     /\ num_states' = num_states + 1
                     /\ pc' = "loop"
                ELSE /\ pc' = "except"
                     /\ UNCHANGED <<best_score, best_model, num_states>>
    /\ UNCHANGED <<cfgVars, best_states, result, fellBack, recVars>>

\* SelectorDIC.select: return best_model
DICReturn ==
    /\ pc = "loop"
    /\ strategy = "DIC"
    /\ num_states \notin DICRange(min_n_components, max_n_components)
    /\ result' = best_model
    /\ pc' = "done"
    /\ UNCHANGED <<cfgVars, num_states, best_score, best_model, best_states, calls,
                   fellBack, recVars>>

\* SelectorDIC.select: the except branch
DICExcept ==
    /\ pc = "except"
    /\ strategy = "DIC"
    /\ result' = base_model(FallbackStates(n_constant))
    /\ fellBack' = TRUE
    /\ pc' = "done"
    /\ UNCHANGED <<cfgVars, num_states, best_score, best_model, best_states, calls,
                   recVars>>

\* SelectorCV.select: the initialisation before the try block
CVEnter ==
    /\ pc = "ready"
    /\ strategy = "CV"
    /\ best_score' = NegInf
    /\ best_states' = CVInitialStates
    /\ num_states' = min_n_components
    /\ pc' = "loop"
    /\ UNCHANGED <<cfgVars, best_model, result, calls, fellBack, recVars>>

\* SelectorCV.select: one iteration of the loop, with the call of SelectorCV.score.
\* The split raises when the word has fewer sequences than folds; each fold fits a
\* model on its training part, which may raise, and scores the held-out part.
CVIter ==
    /\ pc = "loop"
    /\ strategy = "CV"
    /\ num_states \in CVRange(min_n_components, max_n_components)
    /\ \E outs \in [1..NumSplits -> FoldOutcomes] :
         LET splitOK == numSequences >= NumSplits
             folds   == [i \in 1..NumSplits |->
                            IF foldFitFail[num_states] = i THEN Raise ELSE outs[i]]
             scores  == IF splitOK THEN Made(folds) ELSE <<>>
             ok      == splitOK /\ Len(scores) = NumSplits /\ scores[NumSplits] # Raise
             score   == NpMean(scores)
         IN  /\ calls' = [calls EXCEPT ![num_states] = scores]
             /\ IF ok
                THEN /\ IF CVBetter(score, best_score)
                        THEN best_score' = score /\ best_states' = num_states
                        ELSE UNCHANGED <<best_score, best_states>>
                     /\ num_states' = num_states + 1
                     /\ pc' = "loop"
                ELSE /\ pc' = "except"
                     /\ UNCHANGED <<best_score, best_states, num_states>>
    /\ UNCHANGED <<cfgVars, best_model, result, fellBack, recVars>>

\* SelectorCV.select: return self.base_model(best_states)
CVReturn ==
    /\ pc = "loop"
    /\ strategy = "CV"
    /\ num_states \notin CVRange(min_n_components, max_n_components)
    /\ result' = CVFinalModel(best_states)
    /\ pc' = "done"
    /\ UNCHANGED <<cfgVars, num_states, best_score, best_model, best_states, calls,
                   fellBack, recVars>>

\* SelectorCV.select: the except branch
CVExcept ==
    /\ pc = "except"
    /\ strategy = "CV"
    /\ result' = base_model(FallbackStates(n_constant))
    /\ fellBack' = TRUE
    /\ pc' = "done"
    /\ UNCHANGED <<cfgVars, num_states, best_score, best_model, best_states, calls,
                   recVars>>

----------------------------------------------------------------------------
(* recognize *)

\* best_guess = None
NoWord == "None"

\* the orders the keys of models may be iterated in
RECURSIVE WordOrders(_)
WordOrders(S) ==
    {<<>>} \cup UNION {{<<w>> \o t : t \in WordOrders(S \ {w})} : w \in S}

\* the word set of an order
Keys(ws) == {ws[i] : i \in 1..Len(ws)}

\* the values models may hold: None (selection produced no model) or a model
RecModels == {NoModel, Model(CVInitialStates, "full")}

\* what model.score may do in recognize: return a log likelihood, possibly -inf, or raise
RecOutcomes == {Num(x) : x \in RecLogLValues} \cup {NegInf, Raise}

\* mutant of ExceptScore: a failed word is recorded with score 0
ExceptScoreZero == Num(0)

\* the score recorded for a word whose model raised
ExceptScore == NegInf

\* mutant of RecBetter: score >= best_score, the last maximum wins
RecBetterOrEqual(score, best) == ~FGt(best, score)

\* if score > best_score
RecBetter(score, best) == FGt(score, best)

\* mutant of ListAppend: the element is put in front
ListPrepend(list, x) == <<x>> \o list

\* guesses.append, probabilities.append
ListAppend(list, x) == Append(list, x)

\* word_probabilities[train_word] = value
DictSet(d, key, value) ==
    [x \in (DOMAIN d) \cup {key} |-> IF x = key THEN value ELSE d[x]]

\* the empty dict
EmptyDict == [x \in {} |-> NegInf]

recArgs == <<words, models, numItems>>

\* the model state of a recognizer that is not called
RecIdle ==
    /\ words = <<>>
    /\ models = EmptyDict
    /\ numItems = 0
    /\ rpc = "idle"
    /\ item = 0
    /\ widx = 0
    /\ word_probabilities = EmptyDict
    /\ rec_best_score = NegInf
    /\ best_guess = NoWord
    /\ probabilities = <<>>
    /\ guesses = <<>>
    /\ outcomes = <<>>

\* recognize: the call, with any models mapping and any number of test items
RecInit ==
    /\ words \in WordOrders(Vocabulary)
    /\ models \in [Keys(words) -> RecModels]
    /\ numItems \in 0..MaxItems
    /\ rpc = "items"
    /\ item = 1
    /\ widx = 0
    /\ word_probabilities = EmptyDict
    /\ rec_best_score = NegInf
    /\ best_guess = NoWord
    /\ probabilities = <<>>
    /\ guesses = <<>>
    /\ outcomes = [i \in 1..numItems |-> EmptyDict]

\* recognize: the head of the outer loop and the initialisation for one test item
RecBeginItem ==
    /\ rpc = "items"
    /\ item <= numItems
    /\ word_probabilities' = EmptyDict
    /\ rec_best_score' = NegInf
    /\ best_guess' = NoWord
    /\ widx' = 1
    /\ rpc' = "words"
    /\ UNCHANGED <<recArgs, item, probabilities, guesses, outcomes, selVars>>

\* recognize: one iteration of the inner loop; scoring with a None model raises
RecScoreWord ==
    /\ rpc = "words"
    /\ widx <= Len(words)
    /\ \E out \in RecOutcomes :
         LET train_word == words[widx]
             score == IF models[train_word] = NoModel THEN Raise ELSE out
         IN  /\ outcomes' = [outcomes EXCEPT ![item] = DictSet(@, train_word, score)]
             /\ IF score # Raise
                THEN /\ word_probabilities' = DictSet(word_probabilities, train_word, score)
                     /\ IF RecBetter(score, rec_best_score)
                        THEN rec_best_score' = score /\ best_guess' = train_word
                        ELSE UNCHANGED <<rec_best_score, best_guess>>
                ELSE /\ word_probabilities' =
                            DictSet(word_probabilities, train_word, ExceptScore)
                     /\ UNCHANGED <<rec_best_score, best_guess>>
    /\ widx' = widx + 1
    /\ UNCHANGED <<recArgs, rpc, item, probabilities, guesses, selVars>>

\* recognize: the two appends after the inner loop
RecEndItem ==
    /\ rpc = "words"
    /\ widx > Len(words)
    /\ guesses' = ListAppend(guesses, best_guess)
    /\ probabilities' = ListAppend(probabilities, word_probabilities)
    /\ item' = item + 1
    /\ rpc' = "items"
    /\ UNCHANGED <<recArgs, widx, word_probabilities, rec_best_score, best_guess,
                   outcomes, selVars>>

\* recognize: return probabilities, guesses
RecReturn ==
    /\ rpc = "items"
    /\ item > numItems
    /\ rpc' = "done"
    /\ UNCHANGED <<recArgs, item, widx, word_probabilities, rec_best_score, best_guess,
                   probabilities, guesses, outcomes, selVars>>

----------------------------------------------------------------------------
(* Specifications *)

InitSelect == SelInit /\ RecIdle

NextSelect ==
    \/ ConstantSelect
    \/ BICEnter
    \/ BICIter
    \/ BICReturn
    \/ BICExcept
    \/ DICEnter
    \/ DICIter
    \/ DICReturn
    \/ DICExcept
    \/ CVEnter
    \/ CVIter
    \/ CVReturn
    \/ CVExcept

\* one select() call of one selector
SpecSelect == InitSelect /\ [][NextSelect]_vars

InitRecognize == RecInit /\ SelIdle

NextRecognize ==
    \/ RecBeginItem
    \/ RecScoreWord
    \/ RecEndItem
    \/ RecReturn

\* one recognize() call
SpecRecognize == InitRecognize /\ [][NextRecognize]_vars

----------------------------------------------------------------------------
(* Properties of recognize, checked under SpecRecognize *)

\* the test items whose table and guess have been appended
Completed == 1..Len(guesses)

\* the words whose model returned a score greater than -inf on test item i
Scored(i) == {w \in Keys(words) : outcomes[i][w].k = "num"}

\* the position of a word in the iteration order of models
Position(w) == CHOOSE j \in 1..Len(words) : words[j] = w

\* C1: whenever a word's model raised on a test item, or the word has no model
\* (None), the word's entry in that item's score table is -inf and the word is
\* not the guess of that item.
C1_FailedScoreIsNegInf ==
    \A i \in Completed : \A w \in Keys(words) :
        (outcomes[i][w] = Raise \/ models[w] = NoModel)
            => /\ probabilities[i][w] = NegInf
               /\ guesses[i] # w

\* C1 witness: a word with a model raised on an item and another word was guessed
C1_Witness ==
    \E i \in Completed : \E w \in Keys(words) :
        /\ models[w] # NoModel
        /\ outcomes[i][w] = Raise
        /\ probabilities[i][w] = NegInf
        /\ guesses[i] \in Keys(words) \ {w}

\* C2: the guess of every test item is the first word, in iteration order, among
\* those with the greatest returned score; it is None exactly when no model
\* returned a score greater than -inf; a returned score is what the table holds.
C2_GuessIsFirstMaximum ==
    \A i \in Completed :
        /\ \A w \in Keys(words) :
               outcomes[i][w] # Raise => probabilities[i][w] = outcomes[i][w]
        /\ (guesses[i] = NoWord) <=> (Scored(i) = {})
        /\ guesses[i] # NoWord =>
               /\ guesses[i] \in Scored(i)
               /\ \A w \in Scored(i) :
                      /\ outcomes[i][w].v <= outcomes[i][guesses[i]].v
                      /\ outcomes[i][w].v = outcomes[i][guesses[i]].v
                             => Position(guesses[i]) <= Position(w)

\* C2 witness: WORD1 scores -1000 and WORD2 -500 on the first item, guess WORD2;
\* both score -500 on the second item and the first word, WORD1, is the guess
C2_Witness ==
    /\ words = <<"WORD1", "WORD2">>
    /\ Len(guesses) = 2
    /\ probabilities[1]["WORD1"] = Num(-1000)
    /\ probabilities[1]["WORD2"] = Num(-500)
    /\ guesses[1] = "WORD2"
    /\ probabilities[2]["WORD1"] = Num(-500)
    /\ probabilities[2]["WORD2"] = Num(-500)
    /\ guesses[2] = "WORD1"

\* the table recognize owes test item i: the returned score, -inf for a raise
OwedTable(i) ==
    [w \in Keys(words) |-> IF outcomes[i][w] = Raise THEN NegInf ELSE outcomes[i][w]]

\* C3: at return both lists have one element per test item, the i-th table is
\* the table of the i-th test item with exactly one entry per word of models,
\* and the i-th guess is None or a word with the greatest score of that table.
C3_OutputsAlignWithItems ==
    rpc = "done" =>
        /\ Len(probabilities) = numItems
        /\ Len(guesses) = numItems
        /\ \A i \in 1..numItems :
               /\ DOMAIN probabilities[i] = Keys(words)
               /\ probabilities[i] = OwedTable(i)
               /\ IF Scored(i) = {}
                  THEN guesses[i] = NoWord
                  ELSE /\ guesses[i] \in Scored(i)
                       /\ \A w \in Scored(i) :
                              OwedTable(i)[w].v <= OwedTable(i)[guesses[i]].v

\* C3 witness: two test items with different tables and different guesses, one
\* of the models having raised
C3_Witness ==
    /\ rpc = "done"
    /\ numItems = 2
    /\ Len(words) = 2
    /\ probabilities[1] # probabilities[2]
    /\ guesses[1] # guesses[2]
    /\ guesses[1] # NoWord
    /\ guesses[2] # NoWord
    /\ \E w \in Keys(words) : outcomes[2][w] = Raise

----------------------------------------------------------------------------
(* Properties of the selectors, checked under SpecSelect *)

\* select() has returned
Returned == pc = "done"

\* the candidate state counts each strategy is documented to search
Candidates ==
    CASE strategy = "BIC" -> {n \in StateDomain : min_n_components <= n /\ n <= max_n_components}
      [] strategy = "CV" -> {n \in StateDomain : min_n_components <= n /\ n <= max_n_components}
      [] strategy = "DIC" -> {n \in StateDomain : min_n_components <= n /\ n < max_n_components}
      [] OTHER -> {}

\* the number of scoring calls one candidate needs
CallsNeeded ==
    CASE strategy = "BIC" -> 1
      [] strategy = "DIC" -> numOthers + 1
      [] strategy = "CV" -> NumSplits
      [] OTHER -> 0

\* the fit (both fold fits for CV) of candidate n succeeds
FitSucceeds(n) == IF strategy = "CV" THEN foldFitFail[n] = 0 ELSE fitOK[n]

\* candidate n was fitted and every score it needs was returned
Available(n) ==
    /\ FitSucceeds(n)
    /\ Len(calls[n]) = CallsNeeded
    /\ \A j \in 1..Len(calls[n]) : calls[n][j] # Raise

\* n is the first of the candidates that maximise crit
FirstMaximum(n, crit(_)) ==
    /\ n \in Candidates
    /\ \A m \in Candidates : crit(m) <= crit(n) /\ (crit(m) = crit(n) => n <= m)

\* C4 as claimed: select() returns None or a model whose state count lies in
\* [minStates, maxStates] or equals constantStates.
C4_ResultInRangeOrConstant ==
    Returned =>
        \/ result = NoModel
        \/ (min_n_components <= result.n /\ result.n <= max_n_components)
        \/ result.n = n_constant

\* C5: under BIC, DIC and CV, when the search range is not empty and the fit
\* fails at every candidate, select() returns what the fit at constantStates
\* gives: that model, or None when that fit fails too; until it has returned, a
\* step of select() is enabled (nothing is raised to the caller).
C5_AllFitsFailFallsBack ==
    (strategy \in {"BIC", "DIC", "CV"} /\ Candidates # {}
        /\ \A n \in Candidates : ~FitSucceeds(n))
    => /\ Returned =>
              /\ fellBack
              /\ result = (IF fitOK[n_constant] THEN Model(n_constant, "full") ELSE NoModel)
       /\ ~Returned => ENABLED NextSelect

\* C5 witness: every candidate fit failed and the model fitted at constantStates
\* was returned
C5_Witness ==
    /\ Returned
    /\ strategy \in {"BIC", "DIC", "CV"}
    /\ Cardinality(Candidates) >= 2
    /\ \A n \in Candidates : ~FitSucceeds(n)
    /\ n_constant # CVInitialStates
    /\ result = Model(n_constant, "full")

\* C6 as claimed: a fit or score failure at one candidate only removes that
\* candidate: when some candidate of the range did fit and score, select()
\* returns the model of one of those candidates (for CV, what the fit on the
\* whole data gives at one of them), not the constantStates fallback.
C6_FailureOnlySkipsCandidate ==
    (Returned /\ strategy \in {"BIC", "DIC", "CV"}
        /\ (strategy = "DIC" => numOthers >= 1)
        /\ \E n \in Candidates : Available(n))
    => \E n \in Candidates :
           /\ Available(n)
           /\ result = (IF fitOK[n] THEN Model(n, "full") ELSE NoModel)

\* BIC of candidate n by the documented formula, from the returned logL
ClaimedBIC(n) ==
    -2 * calls[n][1].v
        + (n * n + 2 * numFeatures * n - 1) * Log100[numFrames]

\* C7: SelectorBIC.select, when every fit and score of the non-empty range
\* [minStates, maxStates] succeeds, returns the model fitted at the lowest
\* numStates among those of minimal BIC = -2*logL + p*log(N).
C7_BICSelectsFirstMinimum ==
    (Returned /\ strategy = "BIC" /\ Candidates # {}
        /\ \A n \in Candidates : Available(n))
    => \E n \in Candidates :
           /\ \A m \in Candidates :
                  ClaimedBIC(n) <= ClaimedBIC(m)
                      /\ (ClaimedBIC(n) = ClaimedBIC(m) => n <= m)
           /\ result = Model(n, "full")

\* C7 witness: BIC scores 120, 95, 110 for 2, 3, 4 states select the 3-state model
C7_Witness ==
    /\ Returned
    /\ strategy = "BIC"
    /\ min_n_components = 2
    /\ max_n_components = 4
    /\ \A n \in 2..4 : Available(n)
    /\ ClaimedBIC(2) = 12000
    /\ ClaimedBIC(3) = 9500
    /\ ClaimedBIC(4) = 11000
    /\ result = Model(3, "full")

\* twice the mean held-out score of candidate n
TwiceMeanHeldOut(n) == calls[n][1].v + calls[n][2].v

\* C8: SelectorCV.select, for a word with at least 2 sequences and when every
\* fold fit and fold score of the non-empty range succeeds, picks the lowest
\* numStates among those of greatest mean held-out score and returns what the
\* fit at that numStates on the word's whole data gives, never a fold's model.
C8_CVSelectsBestMeanAndRefits ==
    (Returned /\ strategy = "CV" /\ numSequences >= 2 /\ Candidates # {}
        /\ \A n \in Candidates : Available(n))
    => \E n \in Candidates :
           /\ FirstMaximum(n, TwiceMeanHeldOut)
           /\ best_states = n
           /\ result = (IF fitOK[n] THEN Model(n, "full") ELSE NoModel)

\* C8 witness: three candidates, the middle one has the greatest mean held-out
\* score and its fit on the whole data is returned
C8_Witness ==
    /\ Returned
    /\ strategy = "CV"
    /\ numSequences >= 2
    /\ min_n_components = 2
    /\ max_n_components = 4
    /\ n_constant = 2
    /\ \A n \in 2..4 : Available(n)
    /\ TwiceMeanHeldOut(3) > TwiceMeanHeldOut(2)
    /\ TwiceMeanHeldOut(3) = TwiceMeanHeldOut(4)
    /\ result = Model(3, "full")

RECURSIVE SumOfScores(_, _)
SumOfScores(s, j) == IF j = 0 THEN 0 ELSE s[j].v + SumOfScores(s, j - 1)

\* numOthers times the DIC of candidate n: numOthers * logL(own) - sum of logL(other)
ScaledDIC(n) ==
    numOthers * calls[n][numOthers + 1].v - SumOfScores(calls[n], numOthers)

\* C9: SelectorDIC.select, when the vocabulary has another word and every fit
\* and score of the non-empty range [minStates, maxStates) succeeds, never tries
\* maxStates and returns the model fitted at the lowest numStates among those
\* of greatest DIC = logL(own word) - mean(logL(other words)).
C9_DICSearchesHalfOpenRange ==
    (Returned /\ strategy = "DIC" /\ numOthers >= 1 /\ Candidates # {}
        /\ \A n \in Candidates : Available(n))
    => /\ calls[max_n_components] = <<>>
       /\ \E n \in Candidates :
              /\ FirstMaximum(n, ScaledDIC)
              /\ n < max_n_components
              /\ result = Model(n, "full")

\* C9 witness: two other words, candidates 2 and 3 of the range [2, 4), the
\* 3-state model wins on DIC although the 2-state model fits its own word better
C9_Witness ==
    /\ Returned
    /\ strategy = "DIC"
    /\ numOthers = 2
    /\ min_n_components = 2
    /\ max_n_components = 4
    /\ Available(2)
    /\ Available(3)
    /\ calls[2][3].v > calls[3][3].v
    /\ ScaledDIC(3) > ScaledDIC(2)
    /\ calls[4] = <<>>
    /\ result = Model(3, "full")

\* C10 as claimed: SelectorDIC.select on a vocabulary whose only word is the
\* target raises: it never completes the search over a non-empty range and
\* returns a result.
C10_SoleWordDICRaises ==
    ~(Returned /\ strategy = "DIC" /\ numOthers = 0 /\ Candidates # {} /\ ~fellBack)

====
